---- MODULE Spec2Model ----
(***************************************************************************)
(* Landmarking meta-features of pymfe (src/pymfe/landmarking.py).          *)
(*                                                                         *)
(* One extraction run: a dataset (X, y), the run's folds, random_state     *)
(* and score, the mapping of already-known precomputed values (kwargs),    *)
(* one call of precompute_landmarking_class and then calls of the seven    *)
(* ft_* probes, one after the other, each stepped one loop iteration at a   *)
(* time.                                                                   *)
(*                                                                         *)
(* Arrays are sequences; the VALUES of row and column indices are the      *)
(* 0-based numpy indices, so a[i] of the source is a[i + 1] here.          *)
(*                                                                         *)
(* The scikit-learn estimators are not part of the repository.  What a     *)
(* fitted estimator predicts is kept as the term of its arguments          *)
(* (estimator, random state, training and test data); what the stratified  *)
(* splitter yields is computed as scikit-learn 0.20 (the release the       *)
(* module was written against) computes it, without shuffling.             *)
(*                                                                         *)
(* The statistical meta-feature ft_mean (src/python/pymfe/statistical.py)  *)
(* is extracted by two extractors fitted to the same data, one with the    *)
(* statistical precomputation group and one without, as the test of        *)
(* src/tests/test_statistical.py does.                                     *)
(***************************************************************************)
EXTENDS Integers, Sequences, FiniteSets, TLC

\* Bounds of the model.
MaxRows == 3
MaxCols == 2
MaxFolds == 3

\* Python's None; a random_state that is an int s is <<s>>.
None == <<>>

Classes == {0, 1}
RandomStates == {None, <<0>>}
\* The scoring functions a caller may supply: one that is total, and one that
\* is undefined (raises) when the true labels hold a single class.
ScoreFns == {"accuracy", "roc_auc"}
Probes == {"best_node", "random_node", "worst_node", "linear_discr",
           "naive_bayes", "one_nn", "elite_nn"}
\* The probes that take a random_state.
Seeded == {"best_node", "random_node", "worst_node", "elite_nn"}
\* What a global (unseeded) numpy generator may hand to an estimator.
Draws == {0, 1}
\* Levels of a column's impurity-reduction importance.
ImpLevels == {0, 1}

VARIABLES
    X,              \* attribute matrix: sequence of rows, each a sequence of M values, or None
    y,              \* target vector: sequence of class labels, or None
    cfg,            \* the run's [folds, random_state, score]
    kwargs,         \* already-known precomputed values: key -> value
    prepcomp_vals,  \* what precompute_landmarking_class returned: [kind, value]
    built,          \* number of StratifiedKFold objects constructed by the precompute step
    pc,             \* "idle" or "loop": position of the probe call in progress
    call,           \* the call in progress or last finished: [probe, skf, score, random_state]
                    \* (random_state is None for a probe that takes none)
    splits,         \* the (train, test) pairs skf.split(X, y) yields to the call
    it,             \* number of pairs the call's loop has taken from splits
    result,         \* the call's local list of per-fold scores
    attrs,          \* the column(s) each finished iteration selected
    fits,           \* 0-based fold numbers whose model.fit was called, in call order
    outcome,        \* how the last call ended: [kind, value]
    trees,          \* importances of the seeded trees fitted so far: <<X, y, rs>> -> vector
    ranking,        \* the last MFELandmarking.importance call of the call in progress or
                    \* last finished: [X, y, random_state, feature_importances_, importance]
    first,          \* the run's first finished probe call: [call, splits, attrs, fits, outcome]
    later,          \* probe calls started after first was kept: 0, 1, or 2 for more
    mfe             \* the two statistical extractors, by whether the precomputation
                    \* group is enabled: [fitted, precomputed, value]

vars == <<X, y, cfg, kwargs, prepcomp_vals, built, pc, call, splits, it,
          result, attrs, fits, outcome, trees, ranking, first, later, mfe>>

----------------------------------------------------------------------------
\* numpy helpers

Min(a, b) == IF a < b THEN a ELSE b
Max(a, b) == IF a > b THEN a ELSE b

RECURSIVE Ascending(_)
\* The elements of a finite set of integers as an ascending sequence.
Ascending(S) ==
    IF S = {} THEN <<>>
    ELSE LET m == CHOOSE v \in S : \A w \in S : v <= w
         IN  <<m>> \o Ascending(S \ {m})

\* a[idx] for an index array idx (values 0-based).
Take(a, idx) == [j \in 1..Len(idx) |-> a[idx[j] + 1]]

\* A[:, cols] for a matrix A and a list of column indices (values 0-based).
TakeCols(A, cols) == [i \in 1..Len(A) |-> Take(A[i], cols)]

\* X.shape[1]
NCols(A) == Len(A[1])

AllCols(A) == [j \in 1..NCols(A) |-> j - 1]

----------------------------------------------------------------------------
\* sklearn.model_selection.StratifiedKFold
\* The splitter built without the seed.
StratifiedKFold_unseeded(n_splits, random_state, id) ==
    [n_splits |-> n_splits, shuffle |-> FALSE, random_state |-> None, id |-> id]

\* The splitter built with shuffle=True.
StratifiedKFold_shuffling(n_splits, random_state, id) ==
    [n_splits |-> n_splits, shuffle |-> TRUE, random_state |-> random_state,
     id |-> id]

\* StratifiedKFold(n_splits=folds, random_state=random_state): shuffle keeps its
\* default, False.
StratifiedKFold(n_splits, random_state, id) ==
    [n_splits |-> n_splits, shuffle |-> FALSE, random_state |-> random_state,
     id |-> id]

\* The constructor rejects a fold count below 2.
CtorRaises(n_splits) == n_splits < 2

Count(labels, c) == Cardinality({i \in 1..Len(labels) : labels[i] = c})

\* Position (0-based) of sample i among the samples of its class.
RankInClass(labels, i) == Cardinality({j \in 1..(i - 1) : labels[j] = labels[i]})

\* KFold(k) without shuffling over n samples: fold f holds n \div k consecutive
\* samples, the first n % k folds one more.
KFoldStart(n, k, f) == f * (n \div k) + Min(f, n % k)
KFoldSize(n, k, f) == (n \div k) + (IF f < n % k THEN 1 ELSE 0)
KFoldOf(n, k, p) ==
    CHOOSE f \in 0..(k - 1) :
        KFoldStart(n, k, f) <= p /\ p < KFoldStart(n, k, f) + KFoldSize(n, k, f)

\* The places a class is cut over: max(count, k).
Places(skf, labels, c) == Max(Count(labels, c), skf.n_splits)

\* The orders of n places: every place 0..n-1 once.
Orders(n) ==
    {o \in [1..n -> 0..(n - 1)] : \A p, q \in 1..n : o[p] = o[q] => p = q}

\* The order each class's KFold puts the places of the class in before it cuts
\* them, one split call's worth: the places as they stand without shuffle;
\* with shuffle, any order when random_state is None (numpy's global
\* generator, which moves on from call to call), and the one order the seed
\* fixes when it is an int.
Shuffles(skf, labels) ==
    LET standing == [c \in Classes |-> [p \in 1..Places(skf, labels, c) |-> p - 1]]
        any == {o \in [Classes -> UNION {Orders(Places(skf, labels, c)) : c \in Classes}] :
                    \A c \in Classes : Len(o[c]) = Places(skf, labels, c)}
    IN  IF ~skf.shuffle THEN {standing}
        ELSE IF skf.random_state = None THEN any
        ELSE {CHOOSE o \in any : TRUE}

\* _make_test_folds: each class is cut by its own KFold over max(count, k)
\* places, of which only the first count are samples; order is where each
\* place of each class stands when it is cut.
test_folds(skf, labels, order) ==
    [i \in 1..Len(labels) |->
        KFoldOf(Places(skf, labels, labels[i]), skf.n_splits,
                order[labels[i]][RankInClass(labels, i) + 1])]

\* A splitter that only refuses more folds than samples.
SplitRaises_rows_only(skf, labels) == skf.n_splits > Len(labels)

\* split raises ValueError when there are more folds than samples, or more
\* folds than members in every class (more folds than members in some class
\* only draws a warning).
SplitRaises(skf, labels) ==
    \/ skf.n_splits > Len(labels)
    \/ \A i \in 1..Len(labels) : skf.n_splits > Count(labels, labels[i])
\* A splitter whose training sets are not cut: every row trains every fold.
split_all_train(skf, A, labels, order) ==
    [f \in 1..skf.n_splits |->
        [train |-> Ascending({i - 1 : i \in 1..Len(labels)}),
         test  |-> Ascending({i - 1 : i \in {r \in 1..Len(labels) :
                                  test_folds(skf, labels, order)[r] = f - 1}})]]

\* The (train_index, test_index) pairs of skf.split(X, y), in order.
split(skf, A, labels, order) ==
    [f \in 1..skf.n_splits |->
        [train |-> Ascending({i - 1 : i \in {r \in 1..Len(labels) :
                                  test_folds(skf, labels, order)[r] # f - 1}}),
         test  |-> Ascending({i - 1 : i \in {r \in 1..Len(labels) :
                                  test_folds(skf, labels, order)[r] = f - 1}})]]

----------------------------------------------------------------------------
\* The estimators, as terms

\* What a tree built with random_state may draw while it is fitted to the
\* matrix A: a tree's generator only orders the columns it tries, so there is
\* something to draw when random_state is None (numpy's global generator) and
\* A has more than one column.
DrawsFor(random_state, A) ==
    IF random_state = None /\ NCols(A) > 1 THEN Draws ELSE {0}

Rng(random_state, draw) == [seed |-> random_state, draw |-> draw]

DecisionTreeClassifier(max_depth, rng) ==
    [estimator |-> "DecisionTreeClassifier", max_depth |-> max_depth, rng |-> rng]
LinearDiscriminantAnalysis ==
    [estimator |-> "LinearDiscriminantAnalysis"]
GaussianNB ==
    [estimator |-> "GaussianNB"]
KNeighborsClassifier(n_neighbors) ==
    [estimator |-> "KNeighborsClassifier", n_neighbors |-> n_neighbors]

\* model.fit(X_train, y_train) raises ValueError: the linear discriminant asks
\* for at least two training samples, the others for one.
FitRaises(model, X_train, y_train) ==
    Len(X_train) < (IF model.estimator = "LinearDiscriminantAnalysis" THEN 2 ELSE 1)

\* model.fit(X_train, y_train); model.predict(X_test)
predict(model, X_train, y_train, X_test) ==
    [model |-> model, X_train |-> X_train, y_train |-> y_train, X_test |-> X_test]

\* score(y_test, pred) raises ValueError
ScoreRaises(fn, y_test) ==
    fn = "roc_auc" /\ Cardinality({y_test[j] : j \in 1..Len(y_test)}) < 2

\* score(y_test, pred)
Score(fn, y_test, pred) == [score |-> fn, y_true |-> y_test, y_pred |-> pred]

----------------------------------------------------------------------------
\* MFELandmarking.importance

\* clf.feature_importances_ of an unconstrained tree: one level per column, all
\* zero when the tree is a single leaf (which it is for a single-class target).
PossibleImportances(A, labels) ==
    IF Cardinality({labels[i] : i \in 1..Len(labels)}) < 2
    THEN {[j \in 1..NCols(A) |-> 0]}
    ELSE [1..NCols(A) -> ImpLevels]

\* A tree that comes out anew at every fit, whatever its random_state.
FeatureImportances_fresh(A, labels, random_state) == PossibleImportances(A, labels)

\* A tree built with an int random_state is a function of its arguments: the
\* importances of a fit already seen are the ones seen.
FeatureImportances(A, labels, random_state) ==
    IF random_state # None /\ <<A, labels, random_state>> \in DOMAIN trees
    THEN {trees[<<A, labels, random_state>>]}
    ELSE PossibleImportances(A, labels)

Remember(A, labels, random_state, fi) ==
    IF random_state = None THEN trees
    ELSE (<<A, labels, random_state>> :> fi) @@ trees

\* np.argsort(-v): the indices descending by value.
argsort_descending(v) ==
    LET before(a, b) == v[a] > v[b] \/ (v[a] = v[b] /\ a < b)
    IN  [p \in 1..Len(v) |->
            (CHOOSE a \in 1..Len(v) :
                Cardinality({b \in 1..Len(v) : before(b, a)}) = p - 1) - 1]

\* np.argsort(v): the 0-based indices of v, ascending by value (numpy sorts
\* arrays this short by insertion, so ties keep their index order).
argsort(v) ==
    LET before(a, b) == v[a] < v[b] \/ (v[a] = v[b] /\ a < b)
    IN  [p \in 1..Len(v) |->
            (CHOOSE a \in 1..Len(v) :
                Cardinality({b \in 1..Len(v) : before(b, a)}) = p - 1) - 1]

\* importance(X, y, random_state) given the fitted tree's feature_importances_
importance(fi) == argsort(fi)

\* No importance call made yet.
NoRanking ==
    [X |-> <<>>, y |-> <<>>, random_state |-> None,
     feature_importances_ |-> <<>>, importance |-> <<>>]

\* The call importance(A, labels, random_state), whose tree came out with the
\* importances fi, and what it returned.
Ranked(A, labels, random_state, fi) ==
    [X |-> A, y |-> labels, random_state |-> random_state,
     feature_importances_ |-> fi, importance |-> importance(fi)]

----------------------------------------------------------------------------
\* MFELandmarking.precompute_landmarking_class

EmptyDict == [k \in {} |-> None]
\* The guard without its look at the values already known.
BuildsSkf_always(A, labels, known) == A # None /\ labels # None

\* The guard without its look at X and y.
BuildsSkf_unguarded(A, labels, known) == ~({"skf"} \subseteq DOMAIN known)

\* The guard of the precompute step.
BuildsSkf(A, labels, known) ==
    A # None /\ labels # None /\ ~({"skf"} \subseteq DOMAIN known)

\* Called once, when the data are fitted, with the run's X, y, folds and
\* random_state and the values already known.
precompute_landmarking_class ==
    /\ pc = "idle"
    /\ prepcomp_vals.kind = "pending"
    /\ IF BuildsSkf(X, y, kwargs)
       THEN IF CtorRaises(cfg.folds)
            THEN /\ prepcomp_vals' = [kind |-> "raised", value |-> EmptyDict]
                 /\ built' = built
            ELSE /\ prepcomp_vals' =
                      [kind |-> "returned",
                       value |-> ("skf" :> StratifiedKFold(cfg.folds,
                                              cfg.random_state, built + 1))]
                 /\ built' = built + 1
       ELSE /\ prepcomp_vals' = [kind |-> "returned", value |-> EmptyDict]
            /\ built' = built
    /\ UNCHANGED <<X, y, cfg, kwargs, pc, call, splits, it, result, attrs,
                   fits, outcome, trees, ranking, first, later, mfe>>

----------------------------------------------------------------------------
\* The probes

\* The split plans a probe can be handed: the one already known, or the one
\* the precompute step returned.
KnownPlans ==
    (IF "skf" \in DOMAIN kwargs THEN {kwargs["skf"]} ELSE {})
    \cup (IF prepcomp_vals.kind = "returned" /\ "skf" \in DOMAIN prepcomp_vals.value
          THEN {prepcomp_vals.value["skf"]} ELSE {})

\* A call that has not finished.
Pending == [kind |-> "pending", value |-> <<>>]

\* The record of a finished call; the run keeps its first.
Finished(c, s, a, f, o) ==
    IF first.outcome = Pending
    THEN [call |-> c, splits |-> s, attrs |-> a, fits |-> f, outcome |-> o]
    ELSE first
\* A loop body wrapped in try/except that goes on whatever fails.
Raises_swallowed(model, X_train, y_train, fn, y_test) == FALSE

\* model.fit(X_train, y_train), model.predict(X_test) or score(y_test, pred)
\* raises.
Raises(model, X_train, y_train, fn, y_test) ==
    FitRaises(model, X_train, y_train) \/ ScoreRaises(fn, y_test)
\* An except clause that hands back the scores gathered so far.
Propagate_partial(res) == [kind |-> "returned", value |-> res]

\* No probe catches anything: an exception of the loop leaves the call, and
\* the caller gets no value, whatever res the local list held.
Propagate(res) == [kind |-> "raised", value |-> <<>>]
\* result.insert(0, s)
append_front(res, s) == <<s>> \o res

\* result.append(s)
append(res, s) == Append(res, s)
\* A return placed inside the loop: the call returns after its first iteration.
Exhausted_inside_loop == it >= 1

\* The for loop ends when the splitter has no pair left.
Exhausted == it = Len(splits)

\* result = []; for train_index, test_index in skf.split(X, y): the splitter
\* cuts the folds, or raises, when the loop asks for the first pair.
Invoke(probe) ==
    /\ pc = "idle"
    /\ prepcomp_vals.kind = "returned"
    /\ X # None /\ y # None
    /\ later' = IF first.outcome.kind \in {"returned", "raised"} /\ later < 2
                THEN later + 1 ELSE later
    /\ \E skf \in KnownPlans :
         /\ call' = [probe |-> probe, skf |-> skf, score |-> cfg.score,
                     random_state |-> IF probe \in Seeded THEN cfg.random_state
                                      ELSE None]
         /\ result' = <<>>
         /\ it' = 0
         /\ attrs' = <<>>
         /\ fits' = <<>>
         /\ ranking' = NoRanking
         /\ IF SplitRaises(skf, y)
            THEN /\ splits' = <<>>
                 /\ pc' = "idle"
                 /\ outcome' = Propagate(<<>>)
                 /\ first' = Finished(call', <<>>, <<>>, <<>>, outcome')
            ELSE /\ \E order \in Shuffles(skf, y) : splits' = split(skf, X, y, order)
                 /\ pc' = "loop"
                 /\ outcome' = Pending
                 /\ first' = first
    /\ UNCHANGED <<X, y, cfg, kwargs, prepcomp_vals, built, trees, mfe>>

\* One iteration of a probe's loop over the columns cols with a fresh model:
\* select the rows and columns, fit, predict, score, append.
Iteration(model, cols) ==
    LET train_index == splits[it + 1].train
        test_index  == splits[it + 1].test
        X_train == TakeCols(Take(X, train_index), cols)
        X_test  == TakeCols(Take(X, test_index), cols)
        y_train == Take(y, train_index)
        y_test  == Take(y, test_index)
        pred    == predict(model, X_train, y_train, X_test)
        raises  == Raises(model, X_train, y_train, call.score, y_test)
    IN  /\ it' = it + 1
        /\ attrs' = Append(attrs, cols)
        /\ fits' = Append(fits, it)
        /\ IF raises
           THEN /\ result' = result
                /\ pc' = "idle"
                /\ outcome' = Propagate(result)
                /\ first' = Finished(call, splits, attrs', fits', outcome')
           ELSE /\ result' = append(result, Score(call.score, y_test, pred))
                /\ pc' = "loop"
                /\ outcome' = outcome
                /\ first' = first
        /\ UNCHANGED <<X, y, cfg, kwargs, prepcomp_vals, built, call, splits,
                       later, mfe>>

InLoop(probe) == pc = "loop" /\ call.probe = probe /\ it < Len(splits)

ft_best_node ==
    /\ InLoop("best_node")
    /\ \E d \in DrawsFor(call.random_state, X) :
         Iteration(DecisionTreeClassifier(<<1>>, Rng(call.random_state, d)), AllCols(X))
    /\ UNCHANGED <<trees, ranking>>

\* attr = np.random.randint(0, X.shape[1], size=(1,)): numpy's global generator
RandomAttr(A, random_state) == {<<a>> : a \in 0..(NCols(A) - 1)}

ft_random_node ==
    /\ InLoop("random_node")
    /\ \E attr \in RandomAttr(X, call.random_state) :
         \E d \in DrawsFor(call.random_state, TakeCols(X, attr)) :
            Iteration(DecisionTreeClassifier(<<1>>, Rng(call.random_state, d)), attr)
    /\ UNCHANGED <<trees, ranking>>

\* [importance[0]]
WorstAttr(imp) == <<imp[1]>>
\* [importance[0]] where [importance[-1]] is meant
EliteAttr_first(imp) == <<imp[1]>>

\* [importance[-1]]
EliteAttr(imp) == <<imp[Len(imp)]>>

\* The importance call handed the whole matrix, test rows included.
ImportanceX_all == X

\* The arguments of the importance call of an iteration.
ImportanceX == Take(X, splits[it + 1].train)
ImportanceY == Take(y, splits[it + 1].train)
\* The importance call made without the probe's random_state.
ImportanceSeed_dropped(random_state) == None

ImportanceSeed(random_state) == random_state

ft_worst_node ==
    /\ InLoop("worst_node")
    /\ \E fi \in FeatureImportances(ImportanceX, ImportanceY,
                                    ImportanceSeed(call.random_state)) :
         /\ trees' = Remember(ImportanceX, ImportanceY,
                              ImportanceSeed(call.random_state), fi)
         /\ ranking' = Ranked(ImportanceX, ImportanceY,
                               ImportanceSeed(call.random_state), fi)
         /\ \E d \in DrawsFor(call.random_state,
                               TakeCols(X, WorstAttr(ranking'.importance))) :
              Iteration(DecisionTreeClassifier(<<1>>, Rng(call.random_state, d)),
                        WorstAttr(ranking'.importance))

ft_linear_discr ==
    /\ InLoop("linear_discr")
    /\ Iteration(LinearDiscriminantAnalysis, AllCols(X))
    /\ UNCHANGED <<trees, ranking>>

ft_naive_bayes ==
    /\ InLoop("naive_bayes")
    /\ Iteration(GaussianNB, AllCols(X))
    /\ UNCHANGED <<trees, ranking>>

ft_one_nn ==
    /\ InLoop("one_nn")
    /\ Iteration(KNeighborsClassifier(1), AllCols(X))
    /\ UNCHANGED <<trees, ranking>>

ft_elite_nn ==
    /\ InLoop("elite_nn")
    /\ \E fi \in FeatureImportances(ImportanceX, ImportanceY,
                                    ImportanceSeed(call.random_state)) :
         /\ trees' = Remember(ImportanceX, ImportanceY,
                              ImportanceSeed(call.random_state), fi)
         /\ ranking' = Ranked(ImportanceX, ImportanceY,
                               ImportanceSeed(call.random_state), fi)
         /\ Iteration(KNeighborsClassifier(1), EliteAttr(ranking'.importance))

\* A return that first reverses the rows of X in place (X[:] = X[::-1]).
Return_reversing ==
    /\ pc = "loop"
    /\ Exhausted
    /\ pc' = "idle"
    /\ outcome' = [kind |-> "returned", value |-> result]
    /\ first' = Finished(call, splits, attrs, fits, outcome')
    /\ X' = [i \in 1..Len(X) |-> X[Len(X) + 1 - i]]
    /\ UNCHANGED <<y, cfg, kwargs, prepcomp_vals, built, call, splits, it,
                   result, attrs, fits, trees, ranking, later, mfe>>

\* return np.array(result), once the splitter is exhausted
Return ==
    /\ pc = "loop"
    /\ Exhausted
    /\ pc' = "idle"
    /\ outcome' = [kind |-> "returned", value |-> result]
    /\ first' = Finished(call, splits, attrs, fits, outcome')
    /\ UNCHANGED <<X, y, cfg, kwargs, prepcomp_vals, built, call, splits, it,
                   result, attrs, fits, trees, ranking, later, mfe>>

----------------------------------------------------------------------------
\* MFEStatistical (src/python/pymfe/statistical.py) and its extraction

\* The mean of a column, sum / count, as the exact fraction.
RECURSIVE ColSum(_, _, _)
ColSum(N, j, n) == IF n = 0 THEN 0 ELSE ColSum(N, j, n - 1) + N[n][j]
RECURSIVE RowSum(_, _, _)
RowSum(N, i, m) == IF m = 0 THEN 0 ELSE RowSum(N, i, m - 1) + N[i][m]
\* N.mean(axis=1): the mean of each row.
ft_mean_rows(N) ==
    [i \in 1..Len(N) |-> [sum |-> RowSum(N, i, NCols(N)), count |-> NCols(N)]]

\* N.mean(axis=0)
ft_mean(N) ==
    [j \in 1..NCols(N) |-> [sum |-> ColSum(N, j, Len(N)), count |-> Len(N)]]

\* The parameters of ft_mean(cls, N).
ft_mean_params == {"N"}

\* What fit precomputes for the statistical group when the group is enabled
\* (the class frequencies, which any group may use), and nothing otherwise.
StatisticalPrecomputed(precompute, labels) ==
    IF precompute
    THEN ("class_freqs" :> [c \in Classes |-> Count(labels, c)])
    ELSE EmptyDict

\* The extractor binds each parameter of a method to the precomputed value of
\* that name, or else to the fitted data of that name.
Bind(params, data, precomputed) ==
    [p \in params |-> IF p \in DOMAIN precomputed THEN precomputed[p] ELSE data[p]]

\* MFE(groups=["statistical"], features=["mean"]) before fit
NewMFE == [fitted |-> FALSE, precomputed |-> EmptyDict, value |-> Pending]

\* .fit(X.values, y.values, precomp_groups="statistical" if precompute else None)
fit(precompute) ==
    /\ ~mfe[precompute].fitted
    /\ mfe' = [mfe EXCEPT ![precompute] =
                  [fitted |-> TRUE,
                   precomputed |-> StatisticalPrecomputed(precompute, y),
                   value |-> Pending]]
    /\ UNCHANGED <<X, y, cfg, kwargs, prepcomp_vals, built, pc, call, splits, it,
                   result, attrs, fits, outcome, trees, ranking, first, later>>

\* value = mfe.extract()[1]
extract(precompute) ==
    /\ mfe[precompute].fitted
    /\ mfe[precompute].value = Pending
    /\ LET args == Bind(ft_mean_params, [N |-> X, X |-> X, y |-> y],
                        mfe[precompute].precomputed)
       IN  mfe' = [mfe EXCEPT ![precompute].value =
                      [kind |-> "returned", value |-> ft_mean(args["N"])]]
    /\ UNCHANGED <<X, y, cfg, kwargs, prepcomp_vals, built, pc, call, splits, it,
                   result, attrs, fits, outcome, trees, ranking, first, later>>

----------------------------------------------------------------------------
\* The runs

\* The datasets: N rows (2..MaxRows), M columns (1..MaxCols) that all differ.
Attributes(N, M) == [i \in 1..N |-> [j \in 1..M |-> i * j]]

\* A split plan the caller built before this run, of two folds whatever the
\* run's fold count.
SuppliedPlan == StratifiedKFold(2, None, 0)

\* The values already known when the precompute step runs: the class
\* frequencies of another group, with or without a split plan.
KnownValues ==
    {("class_freqs" :> 0), ("class_freqs" :> 0) @@ ("skf" :> SuppliedPlan)}

\* A run over a dataset of 2..MaxRows rows and a number of columns in Ms (X
\* or y may be one of absent instead), with a fold count in Ks, the
\* already-known values in known and the scoring function in scores; first0
\* is the record the run starts with.
Start(Ms, Ks, absent, known, scores, first0) ==
    /\ \E N \in 2..MaxRows, M \in Ms :
         /\ X \in {Attributes(N, M)} \cup absent
         /\ y \in [1..N -> Classes] \cup absent
    /\ cfg \in [folds : Ks, random_state : RandomStates, score : scores]
    /\ kwargs \in known
    /\ prepcomp_vals = [kind |-> "pending", value |-> EmptyDict]
    /\ built = 0
    /\ pc = "idle"
    /\ call = [probe |-> "none", skf |-> StratifiedKFold(0, None, 0),
               score |-> cfg.score, random_state |-> None]
    /\ splits = <<>>
    /\ it = 0
    /\ result = <<>>
    /\ attrs = <<>>
    /\ fits = <<>>
    /\ outcome = Pending
    /\ trees = EmptyDict
    /\ ranking = NoRanking
    /\ first = [call |-> call, splits |-> <<>>, attrs |-> <<>>, fits |-> <<>>,
                outcome |-> first0]
    /\ later = 0
    /\ mfe = [precompute \in BOOLEAN |-> NewMFE]

\* Every run, none of which keeps a record of its first call.
Init ==
    Start(1..MaxCols, 1..MaxFolds, {None}, KnownValues, ScoreFns,
          [kind |-> "unkept", value |-> <<>>])

\* The runs that compare calls, which keep their first finished call: a total
\* scoring function, no split plan known beforehand, and either the widest
\* datasets cut in two folds or two-column datasets cut in up to MaxFolds.
\* The class of the first row is called 0 (the splitter and the estimators
\* treat the classes alike, so the targets with the names swapped add nothing).
InitPair ==
    /\ \/ Start({MaxCols}, {2}, {}, {("class_freqs" :> 0)}, {"accuracy"}, Pending)
       \/ Start({2}, 2..MaxFolds, {}, {("class_freqs" :> 0)}, {"accuracy"}, Pending)
    /\ y[1] = 0

\* The numeric values of the datasets the statistical extractors are fitted to.
Numbers == {0, 1}

\* The runs of the statistical test: a numeric dataset of up to MaxRows rows
\* and MaxCols columns, and two extractors yet to be fitted.
InitStat ==
    /\ \E N \in 1..MaxRows, M \in 1..MaxCols :
         /\ X \in [1..N -> [1..M -> Numbers]]
         /\ y \in [1..N -> Classes]
    /\ cfg = [folds |-> 2, random_state |-> None, score |-> "accuracy"]
    /\ kwargs = EmptyDict
    /\ prepcomp_vals = [kind |-> "pending", value |-> EmptyDict]
    /\ built = 0
    /\ pc = "idle"
    /\ call = [probe |-> "none", skf |-> StratifiedKFold(0, None, 0),
               score |-> cfg.score, random_state |-> None]
    /\ splits = <<>>
    /\ it = 0
    /\ result = <<>>
    /\ attrs = <<>>
    /\ fits = <<>>
    /\ outcome = Pending
    /\ trees = EmptyDict
    /\ ranking = NoRanking
    /\ first = [call |-> call, splits |-> <<>>, attrs |-> <<>>, fits |-> <<>>,
                outcome |-> [kind |-> "unkept", value |-> <<>>]]
    /\ later = 0
    /\ mfe = [precompute \in BOOLEAN |-> NewMFE]

NextStat ==
    \/ \E precompute \in BOOLEAN : fit(precompute)
    \/ \E precompute \in BOOLEAN : extract(precompute)

SpecStat == InitStat /\ [][NextStat]_vars

Next ==
    \/ precompute_landmarking_class
    \/ \E probe \in Probes : Invoke(probe)
    \/ ft_best_node
    \/ ft_random_node
    \/ ft_worst_node
    \/ ft_linear_discr
    \/ ft_naive_bayes
    \/ ft_one_nn
    \/ ft_elite_nn
    \/ Return

Spec == Init /\ [][Next]_vars

SpecPair == InitPair /\ [][Next]_vars

----------------------------------------------------------------------------
\* Properties

Rows == {i - 1 : i \in 1..Len(y)}
Elems(a) == {a[j] : j \in 1..Len(a)}
NoRepeat(a) == Cardinality(Elems(a)) = Len(a)

\* A probe has taken the split plan call.skf over the run's data.
Iterated == call.probe \in Probes

\* The plan in splits has k folds that partition the rows, each trained on
\* the complement of its test set.
IsPartition(k) ==
    /\ Len(splits) = k
    /\ \A f \in 1..Len(splits) :
         /\ NoRepeat(splits[f].test) /\ NoRepeat(splits[f].train)
         /\ Elems(splits[f].train) = Rows \ Elems(splits[f].test)
    /\ \A f, g \in 1..Len(splits) :
         f # g => Elems(splits[f].test) \cap Elems(splits[g].test) = {}
    /\ UNION {Elems(splits[f].test) : f \in 1..Len(splits)} = Rows

\* C1 as stated: for any dataset of N rows and any fold count k, the plan a
\* probe iterates has exactly k (train, test) pairs, the test sets pairwise
\* disjoint with union 0..N-1, each train set the complement of its test set.
C1_AnyFoldCount == Iterated => IsPartition(call.skf.n_splits)

\* C1, amended: the same, for a fold count k that some class has at least k
\* members for (with fewer in every class, or fewer rows than folds, split
\* raises and no pair is yielded).
C1_SplitPlanPartition ==
    (Iterated /\ \E i \in 1..Len(y) : Count(y, y[i]) >= call.skf.n_splits)
        => IsPartition(call.skf.n_splits)

\* A plan of 3 folds over 3 rows of one class is being iterated.
C1_Witness ==
    /\ pc = "loop" /\ Len(splits) = 3 /\ Len(y) = 3
    /\ Elems(splits[2].test) = {1} /\ Elems(splits[2].train) = {0, 2}

\* C2: a probe call that returns normally returns a vector whose length is
\* the fold count of the split plan it was given.
C2_LengthIsFoldCount ==
    outcome.kind = "returned" => Len(outcome.value) = call.skf.n_splits

\* ft_elite_nn returned over the supplied two-fold plan while the run's own
\* fold count is 3.
C2_Witness ==
    /\ outcome.kind = "returned" /\ call.probe = "elite_nn"
    /\ call.skf.n_splits = 2 /\ cfg.folds = 3 /\ Len(outcome.value) = 2

\* The score of the i-th pair of the plan, given the columns the iteration used.
IsScoreOfFold(s, i, cols) ==
    /\ s.y_true = Take(y, splits[i].test)
    /\ s.y_pred.X_test = TakeCols(Take(X, splits[i].test), cols)
    /\ s.y_pred.X_train = TakeCols(Take(X, splits[i].train), cols)
    /\ s.y_pred.y_train = Take(y, splits[i].train)

\* C3: the score at position i is the score of the i-th pair of the split
\* plan, in the list being built and in the vector returned, and the folds are
\* fitted in plan order, each scored before the next is fitted.
C3_SplitPlanOrder ==
    Iterated =>
        /\ \A i \in 1..Len(result) : IsScoreOfFold(result[i], i, attrs[i])
        /\ \A j \in 1..Len(fits) : fits[j] = j - 1
        /\ Len(fits) - Len(result) \in {0, 1}
        /\ (pc = "loop" => Len(result) = Len(fits))
        /\ (outcome.kind = "returned" => outcome.value = result)

\* ft_naive_bayes returned three scores, the second of which is for row 1.
C3_Witness ==
    /\ outcome.kind = "returned" /\ call.probe = "naive_bayes"
    /\ Len(outcome.value) = 3
    /\ outcome.value[2].y_pred.X_test = <<X[2]>>
    /\ outcome.value[1].y_pred.X_test # outcome.value[2].y_pred.X_test

\* A call started after the run's first finished call has itself finished.
LaterCallDone == later >= 1 /\ pc = "idle"

\* C4: ft_best_node, ft_worst_node, ft_naive_bayes, ft_one_nn, ft_elite_nn and
\* ft_linear_discr, called again with the same split plan, data, scoring
\* function and seed (an int where the probe takes one), end as the first call
\* did, with the same output vector, whatever calls were made in between.
C4_Deterministic ==
    (/\ LaterCallDone
     /\ call = first.call
     /\ call.probe \in Probes \ {"random_node"}
     /\ (call.probe \in Seeded => call.random_state # None))
        => outcome = first.outcome

\* ft_worst_node returned for the second time, after another call, over two
\* columns and a seed.
C4_Witness ==
    /\ later = 2 /\ pc = "idle" /\ call = first.call
    /\ call.probe = "worst_node" /\ call.random_state = <<0>>
    /\ outcome.kind = "returned" /\ Len(outcome.value) = 3 /\ NCols(X) = 2

\* C5: two calls of ft_random_node with the same data, split plan, scoring
\* function and int random_state select the same column in every fold and
\* return the same vector.
C5_RandomNodeReproducible ==
    (/\ LaterCallDone
     /\ call = first.call
     /\ call.probe = "random_node"
     /\ call.random_state # None)
        => (attrs = first.attrs /\ outcome = first.outcome)

\* C6: with "skf" among the values already known, the precompute step returns
\* an empty mapping, constructs no splitter, and the known plan stays the one
\* supplied.
C6_KnownPlanNoOp ==
    ("skf" \in DOMAIN kwargs /\ prepcomp_vals.kind # "pending")
        => /\ prepcomp_vals = [kind |-> "returned", value |-> EmptyDict]
           /\ built = 0
           /\ kwargs["skf"] = SuppliedPlan

\* The step has run with X, y and a plan of two folds known, the run asking for 3.
C6_Witness ==
    /\ "skf" \in DOMAIN kwargs /\ prepcomp_vals.kind = "returned"
    /\ X # None /\ y # None /\ cfg.folds = 3

\* The precompute step returned exactly {"skf": StratifiedKFold(folds, random_state)}.
ReturnsOnlySkf ==
    /\ prepcomp_vals.kind = "returned"
    /\ DOMAIN prepcomp_vals.value = {"skf"}
    /\ prepcomp_vals.value["skf"].n_splits = cfg.folds
    /\ prepcomp_vals.value["skf"].random_state = cfg.random_state
    /\ built = 1

\* C7 as stated: with X and y supplied and no split plan known, the precompute
\* step returns a mapping of exactly one entry, "skf", a stratified k-fold
\* splitter set up with the requested fold count and seed.
C7_AnyFolds ==
    (/\ X # None /\ y # None /\ "skf" \notin DOMAIN kwargs
     /\ prepcomp_vals.kind # "pending")
        => ReturnsOnlySkf

\* C7, amended: the same, for a requested fold count of at least 2 (the
\* splitter's constructor raises for a smaller one).
C7_ReturnsSkf ==
    (/\ X # None /\ y # None /\ "skf" \notin DOMAIN kwargs
     /\ prepcomp_vals.kind # "pending" /\ cfg.folds >= 2)
        => ReturnsOnlySkf

\* The step returned a 3-fold splitter seeded 0 while class_freqs was known.
C7_Witness ==
    /\ prepcomp_vals.kind = "returned" /\ "skf" \in DOMAIN prepcomp_vals.value
    /\ prepcomp_vals.value["skf"].n_splits = 3
    /\ prepcomp_vals.value["skf"].random_state = <<0>>
    /\ DOMAIN kwargs = {"class_freqs"}

\* The estimator a probe fits.
EstimatorOf(probe) ==
    CASE probe = "linear_discr" -> LinearDiscriminantAnalysis
      [] probe = "naive_bayes" -> GaussianNB
      [] probe \in {"one_nn", "elite_nn"} -> KNeighborsClassifier(1)
      [] OTHER -> DecisionTreeClassifier(<<1>>, Rng(call.random_state, 0))

\* Fitting or scoring the j-th pair of the plan fails, on the columns used.
FoldFails(j) ==
    \/ FitRaises(EstimatorOf(call.probe),
                 TakeCols(Take(X, splits[j].train), attrs[j]),
                 Take(y, splits[j].train))
    \/ ScoreRaises(call.score, Take(y, splits[j].test))

\* C8: once a fold whose fit or scoring fails has been tried, the call has
\* ended there in failure: that fold is the last one tried, it was tried
\* once, no score stands for it, and no later fold was tried.
C8_FailurePropagates ==
    Iterated =>
        /\ NoRepeat(fits)
        /\ \A j \in 1..Len(fits) :
             FoldFails(j) =>
                /\ pc = "idle" /\ outcome.kind = "raised"
                /\ Len(fits) = j /\ it = j
                /\ Len(result) = j - 1

\* A call over two folds failed in its second, the first having been scored.
C8_Witness ==
    /\ outcome.kind = "raised" /\ Len(splits) = 2
    /\ fits = <<0, 1>> /\ Len(result) = 1 /\ FoldFails(2) /\ ~FoldFails(1)

\* C9: what a probe hands back is the full vector, one score for every fold
\* of the plan, or nothing at all.
C9_NoPartialResult ==
    /\ outcome.kind = "returned"
          => /\ Len(outcome.value) = Len(splits)
             /\ Len(fits) = Len(splits)
    /\ outcome.kind # "returned" => outcome.value = <<>>
    /\ Len(outcome.value) \in {0, call.skf.n_splits}

\* ft_elite_nn failed in the second of two folds, with the score of the first
\* in its list, and handed nothing back.
C9_Witness ==
    /\ outcome.kind = "raised" /\ outcome.value = <<>>
    /\ call.probe = "elite_nn" /\ Len(result) = 1 /\ Len(fits) = 2

\* C10: ft_worst_node and ft_elite_nn, run over the same plan with the same
\* int seed on data of more than one column, select different columns in
\* every fold.
C10_WorstIsNotElite ==
    (/\ later >= 1
     /\ {call.probe, first.call.probe} = {"worst_node", "elite_nn"}
     /\ call.skf = first.call.skf
     /\ call.random_state = first.call.random_state
     /\ call.random_state # None
     /\ NCols(X) > 1)
        => \A j \in 1..Min(Len(attrs), Len(first.attrs)) : attrs[j] # first.attrs[j]

\* ft_elite_nn returned after ft_worst_node, both seeded, over three folds of
\* two-column data.
C10_Witness ==
    /\ later >= 1 /\ pc = "idle" /\ outcome.kind = "returned"
    /\ first.call.probe = "worst_node" /\ call.probe = "elite_nn"
    /\ first.outcome.kind = "returned" /\ call.random_state = <<0>>
    /\ NCols(X) = 2 /\ Len(attrs) = 3 /\ Len(first.attrs) = 3

\* Members of the least and of the most populated class of the target.
SmallestClass ==
    CHOOSE n \in 1..Len(y) :
        /\ \E i \in 1..Len(y) : Count(y, y[i]) = n
        /\ \A i \in 1..Len(y) : Count(y, y[i]) >= n
LargestClass ==
    CHOOSE n \in 1..Len(y) :
        /\ \E i \in 1..Len(y) : Count(y, y[i]) = n
        /\ \A i \in 1..Len(y) : Count(y, y[i]) <= n

\* The precompute step has run with X and y supplied and no plan known.
PlanAsked ==
    /\ X # None /\ y # None /\ "skf" \notin DOMAIN kwargs
    /\ prepcomp_vals.kind # "pending"

\* A probe has taken the plan the precompute step returned.
ConsumesBuiltPlan ==
    /\ Iterated /\ prepcomp_vals.kind = "returned"
    /\ "skf" \in DOMAIN prepcomp_vals.value
    /\ call.skf = prepcomp_vals.value["skf"]

\* C11 as stated: when the fold count exceeds the size of the smallest class,
\* the precompute step validates nothing and returns a split plan all the
\* same, and every probe call that consumes the plan ends in failure, never
\* in a score vector.
C11_SmallestClassFails ==
    (PlanAsked /\ cfg.folds > SmallestClass)
        => /\ ReturnsOnlySkf
           /\ (ConsumesBuiltPlan /\ pc = "idle") => outcome.kind = "raised"

\* C11, amended: when the fold count exceeds the size of the smallest class,
\* the precompute step validates nothing and returns a split plan all the
\* same; a probe call that consumes the plan fails, at the split and before
\* any fold is fitted, when the fold count exceeds the size of every class,
\* and otherwise is handed all the pairs of the plan.
C11_EveryClassFails ==
    (PlanAsked /\ cfg.folds > SmallestClass)
        => /\ ReturnsOnlySkf
           /\ (ConsumesBuiltPlan /\ cfg.folds > LargestClass)
                 => /\ pc = "idle" /\ outcome.kind = "raised"
                    /\ outcome.value = <<>> /\ fits = <<>> /\ splits = <<>>
           /\ (ConsumesBuiltPlan /\ cfg.folds <= LargestClass)
                 => Len(splits) = cfg.folds

\* ft_best_node failed over a built plan of 3 folds on 3 rows of two classes.
C11_Witness ==
    /\ ConsumesBuiltPlan /\ call.probe = "best_node" /\ outcome.kind = "raised"
    /\ cfg.folds = 3 /\ Len(y) = 3 /\ LargestClass = 2 /\ SmallestClass = 1
    /\ fits = <<>>

\* C12: once the precompute step has returned, no step of any probe call,
\* whether the call goes on, returns or fails, changes the split plan (the
\* one returned or the one already known), the attribute matrix or the
\* target vector.
C12_ReadOnly ==
    [][prepcomp_vals.kind = "returned"
          => /\ prepcomp_vals' = prepcomp_vals /\ kwargs' = kwargs
             /\ X' = X /\ y' = y]_vars

\* A call has returned after two others, the run's first of which failed,
\* and the plan is the one the precompute step built.
C12_Witness ==
    /\ later = 2 /\ pc = "idle" /\ outcome.kind = "returned"
    /\ first.outcome.kind = "raised" /\ first.fits # <<>>
    /\ call.skf = prepcomp_vals.value["skf"] /\ call.skf = first.call.skf
    /\ X = Attributes(3, 2)

\* order holds every index of the vector fi once, ascending by fi.
IsRanking(order, fi) ==
    /\ Len(order) = Len(fi)
    /\ Elems(order) = {j - 1 : j \in 1..Len(fi)}
    /\ \A p \in 1..(Len(order) - 1) : fi[order[p] + 1] <= fi[order[p + 1] + 1]

\* What the last importance call returned ranks the columns of its matrix.
RankingSorted ==
    ranking # NoRanking
        => /\ Len(ranking.feature_importances_) = NCols(ranking.X)
           /\ IsRanking(ranking.importance, ranking.feature_importances_)

\* The step calls importance with a matrix, a target and an int seed that an
\* earlier call was made with, and gets the ordering the earlier call got.
RankingRepeats ==
    LET args == <<ranking'.X, ranking'.y, ranking'.random_state>>
    IN  (/\ it' = it + 1 /\ call.probe \in {"worst_node", "elite_nn"}
         /\ ranking'.random_state # None /\ args \in DOMAIN trees)
            => ranking'.importance = importance(trees[args])

\* C13: importance returns a permutation of the column indices 0..M-1 in
\* ascending order of the fitted tree's importances (the importance at a
\* position is at most the one at the next, so position 0 holds a least and
\* the last position a most important column), and a call with the matrix,
\* target and int seed of an earlier call returns the earlier call's ordering.
C13_AscendingRanking == [][RankingSorted' /\ RankingRepeats]_vars

\* ft_elite_nn, run after ft_worst_node with the same seed, has ranked the
\* two columns of a fold that ft_worst_node ranked, the first above the second.
C13_Witness ==
    /\ later >= 1 /\ first.call.probe = "worst_node" /\ call.probe = "elite_nn"
    /\ first.call.random_state = <<0>> /\ call.random_state = <<0>>
    /\ first.call.skf = call.skf /\ it >= 1 /\ Len(first.fits) >= it
    /\ ranking.feature_importances_ = <<1, 0>> /\ ranking.importance = <<1, 0>>

\* The total of the j-th column of X, row by row from the last.
RECURSIVE Total(_, _)
Total(j, from) == IF from > Len(X) THEN 0 ELSE X[from][j] + Total(j, from + 1)

\* v holds one entry per column of X, the mean of that column.
IsColumnMeans(v) ==
    /\ Len(v) = NCols(X)
    /\ \A j \in 1..Len(v) : v[j].count = Len(X) /\ v[j].sum = Total(j, 1)

Designated ==
    IF call.probe = "worst_node"
    THEN ranking.importance[1]
    ELSE ranking.importance[Len(ranking.importance)]

\* C15: after every fold of ft_worst_node and ft_elite_nn, the ranking in
\* hand is the one computed for that fold, from its training rows and their
\* labels only (no test row of the fold is among them), and the one column it
\* designates (position 0 for ft_worst_node, the last for ft_elite_nn) is
\* the column of both the training and the test matrix of the fold.
C15_RankingFromTrainingRows ==
    (Iterated /\ call.probe \in {"worst_node", "elite_nn"} /\ it >= 1)
        => /\ ranking.X = Take(X, splits[it].train)
           /\ ranking.y = Take(y, splits[it].train)
           /\ \A r \in Elems(splits[it].test) : X[r + 1] \notin Elems(ranking.X)
           /\ attrs[it] = <<Designated>>
           /\ Len(result) = it
                 => /\ result[it].y_pred.X_train =
                          TakeCols(Take(X, splits[it].train), <<Designated>>)
                    /\ result[it].y_pred.X_test =
                          TakeCols(Take(X, splits[it].test), <<Designated>>)

\* ft_elite_nn has scored its second fold on column 0, the more important of
\* the two for that fold's training rows.
C15_Witness ==
    /\ call.probe = "elite_nn" /\ it = 2 /\ Len(result) = 2 /\ Len(splits) = 2
    /\ ranking.importance = <<1, 0>> /\ attrs[2] = <<0>>
    /\ ranking.X = Take(X, splits[2].train) /\ Len(ranking.X) = 2

\* The rows a score was tested and trained on.
TestedOn(s) == s.y_pred.X_test
TrainedOn(s) == s.y_pred.y_train

\* C16: a probe handed the split plan and the data of the run's first call,
\* each of the two having called split on the stored splitter for itself, is
\* yielded the pairs the first call was yielded, in the same order, and its
\* folds are tested on the same labels and trained on the same labels, fold
\* by fold, as those of the first call.
C16_SamePartitions ==
    (later >= 1 /\ Iterated /\ call.skf = first.call.skf)
        => /\ splits = first.splits
           /\ first.outcome.kind = "returned"
                 => \A j \in 1..Len(result) :
                       /\ result[j].y_true = first.outcome.value[j].y_true
                       /\ TrainedOn(result[j]) = TrainedOn(first.outcome.value[j])
                       /\ Len(TestedOn(result[j]))
                             = Len(TestedOn(first.outcome.value[j]))

\* ft_one_nn has returned over the three pairs ft_best_node was yielded before
\* it, both from the splitter the precompute step stored.
C16_Witness ==
    /\ later >= 1 /\ pc = "idle" /\ outcome.kind = "returned"
    /\ first.call.probe = "best_node" /\ call.probe = "one_nn"
    /\ call.skf = first.call.skf /\ call.skf = prepcomp_vals.value["skf"]
    /\ Len(splits) = 3 /\ splits = first.splits /\ first.outcome.kind = "returned"

\* C17: whenever the attribute matrix or the target vector is None, the
\* precompute step returns an empty mapping and constructs no splitter,
\* whether or not a split plan is already known and whatever the fold count.
C17_AbsentDataNoPlan ==
    ((X = None \/ y = None) /\ prepcomp_vals.kind # "pending")
        => /\ prepcomp_vals = [kind |-> "returned", value |-> EmptyDict]
           /\ built = 0

\* The step has returned with the target vector alone supplied, no split plan
\* known and a fold count the splitter's constructor would refuse.
C17_Witness ==
    /\ X = None /\ y # None /\ "skf" \notin DOMAIN kwargs /\ cfg.folds = 1
    /\ prepcomp_vals.kind = "returned" /\ DOMAIN prepcomp_vals.value = {}

====
